---- MODULE Spec2Model ----
(***************************************************************************)
(* httpstat (src/main.go): one timed HTTP(S) exchange per visit, the       *)
(* httptrace hooks that record its timestamps, the phase timeline printed  *)
(* from them, the manual redirect loop and the response-header ordering.   *)
(*                                                                         *)
(* Time is the monotonic clock reading `now`, counted from the start of    *)
(* the current visit (time.Time.Sub of two time.Now() values uses the      *)
(* monotonic reading); 0 stands for the zero time.Time.                    *)
(*                                                                         *)
(* The transport is the environment: it calls the hooks in the order       *)
(* net/http and net document (one ConnectStart/ConnectDone pair per dial   *)
(* attempt, the attempts of the two address families racing unless -4 or   *)
(* -6 is given).  logger.Fatal ends the process; logger.Error does not.    *)
(* Two racing writes of t2 leave one of the two written values: both carry *)
(* a monotonic reading, so a torn time.Time subtracts as one or the other. *)
(* A late hook is modelled up to the end of the body read.                 *)
(***************************************************************************)
EXTENDS Integers, Sequences, FiniteSets, TLC

\* ---------------------------------------------------------------- bounds
MaxClock == 2   \* largest clock reading within one visit
MaxAddrs == 2   \* addresses a host name resolves to (connect attempts)
MaxHdrs  == 4   \* header names in one response (header-order specification)

\* ------------------------------------------------------ program constants
maxRedirects == 10

\* time.Duration saturates when one operand is the zero time.Time
maxDuration == 1000000

VARIABLES
    followRedirects, httpMethod, saveOutput, outputFile,
    fourOnly,               \* command line flags (-6 acts as -4 does)
    redirectsFollowed,      \* package variable
    pc,                     \* where the process is
    url,                    \* argument of the running visit
    stage,                  \* progress of client.Do inside the transport
    now,                    \* time.Now()
    t0, t1, t2, t3, t4, t5, t6, t7,
    remaining,              \* addresses the dial has not tried yet
    inflight,               \* connect attempts started and not yet reported
    resp,                   \* response of client.Do
    timeline,               \* arguments of the printed template
    partial,                \* report printed by the ConnectDone hook on error
    fatal,                  \* which logger.Fatal ended the process
    visits,                 \* calls of visit() so far
    writes,                 \* per trace timestamp: writes during this visit
    failure,                \* network-level failure seen so far
    csAt,                   \* instant the ConnectStart hook recorded, if any
    names                   \* header names, in the order they are printed

flags == <<followRedirects, httpMethod, saveOutput, outputFile,
           fourOnly>>
ts    == <<t0, t1, t2, t3, t4, t5, t6, t7>>
conn  == <<remaining, inflight>>
vars  == <<flags, redirectsFollowed, pc, url, stage, now, ts, conn, resp,
           timeline, partial, fatal, visits, writes, failure, csAt,
           names>>

Schemes   == {"http", "https"}
URLs      == [Scheme : Schemes, IsIP : BOOLEAN]
Statuses  == {200, 299, 300, 399, 400}
Locations == {"none", "valid", "invalid"}
Stamps    == {"t0", "t1", "t2", "t3", "t4", "t5", "t6"}
NoResp     == [StatusCode |-> 0, Location |-> "none", Header |-> {}]
NoTimeline == [kind |-> "none"]
NoReport   == [kind |-> "none"]
Addrs      == 1..MaxAddrs

\* time.Time.Sub
Sub(t, u) ==
    IF t # 0 /\ u = 0 THEN maxDuration
    ELSE IF t = 0 /\ u # 0 THEN -maxDuration
    ELSE t - u

\* ------------------------------------------------------- header names
\* Strings are tuples of byte values, so that Go's bytewise a < b can be
\* computed.
Server             == <<83, 101, 114, 118, 101, 114>>
AcceptRanges       == <<65, 99, 99, 101, 112, 116, 45, 82, 97, 110, 103, 101, 115>>
ContentType        == <<67, 111, 110, 116, 101, 110, 116, 45, 84, 121, 112, 101>>
Date               == <<68, 97, 116, 101>>
Connection         == <<67, 111, 110, 110, 101, 99, 116, 105, 111, 110>>
KeepAlive          == <<75, 101, 101, 112, 45, 65, 108, 105, 118, 101>>
ProxyAuthenticate  == <<80, 114, 111, 120, 121, 45, 65, 117, 116, 104, 101, 110, 116, 105, 99, 97, 116, 101>>
ProxyAuthorization == <<80, 114, 111, 120, 121, 45, 65, 117, 116, 104, 111, 114, 105, 122, 97, 116, 105, 111, 110>>
TE                 == <<84, 69>>
Trailers           == <<84, 114, 97, 105, 108, 101, 114, 115>>
TransferEncoding   == <<84, 114, 97, 110, 115, 102, 101, 114, 45, 69, 110, 99, 111, 100, 105, 110, 103>>
Upgrade            == <<85, 112, 103, 114, 97, 100, 101>>

\* the header names responses are drawn from
HeaderNames == {Server, AcceptRanges, ContentType, Date, Connection,
                KeepAlive, ProxyAuthenticate, TE, TransferEncoding, Upgrade}

\* Go's string a < b
StrLess(a, b) ==
    \E k \in 1..(Len(a) + 1) :
        /\ \A i \in 1..(k - 1) : i <= Len(b) /\ a[i] = b[i]
        /\ \/ k = Len(a) + 1 /\ Len(b) >= k
           \/ k <= Len(a) /\ k <= Len(b) /\ a[k] < b[k]

\* the endtoend closure of the comparator
endtoend(n) ==
    n \notin {Connection, KeepAlive, ProxyAuthenticate, ProxyAuthorization,
              TE, Trailers, TransferEncoding, Upgrade}

less_noServer(a, b) ==
    LET x == endtoend(a)
        y == endtoend(b)
    IN  IF x = y THEN StrLess(a, b) ELSE x

\* the less function handed to sort.Slice
less(a, b) ==
    IF a = Server THEN TRUE
    ELSE IF b = Server THEN FALSE
    ELSE LET x == endtoend(a)
             y == endtoend(b)
         IN  IF x = y THEN StrLess(a, b) ELSE x

Swap(s, i, j) == [s EXCEPT ![i] = s[j], ![j] = s[i]]

\* sort.Slice on fewer than 12 elements is an insertion sort
RECURSIVE insertInner(_, _)
insertInner(s, j) ==
    IF j > 1 /\ less(s[j], s[j - 1])
    THEN insertInner(Swap(s, j, j - 1), j - 1)
    ELSE s

RECURSIVE insertOuter(_, _)
insertOuter(s, i) ==
    IF i > Len(s) THEN s ELSE insertOuter(insertInner(s, i), i + 1)

sortSlice(s) == insertOuter(s, 2)

\* the orders in which ranging over the map resp.Header can yield its keys
RangeOrders(h) ==
    {s \in [1..Cardinality(h) -> h] : \A i, j \in DOMAIN s : i # j => s[i] # s[j]}

\* ------------------------------------------------------- phase timeline
httpsTimeline_tcpToGotConn(a0, a1, a2, a3, a4, a5, a6, a7) ==
    [kind |-> "https",
     dnsLookup |-> Sub(a1, a0), tcpConnection |-> Sub(a3, a1),
     tlsHandshake |-> Sub(a6, a5), serverProcessing |-> Sub(a4, a3),
     contentTransfer |-> Sub(a7, a4),
     namelookup |-> Sub(a1, a0), connect |-> Sub(a2, a0),
     pretransfer |-> Sub(a3, a0), starttransfer |-> Sub(a4, a0),
     total |-> Sub(a7, a0)]

httpsTimeline_swapped(a0, a1, a2, a3, a4, a5, a6, a7) ==
    [kind |-> "https",
     dnsLookup |-> Sub(a1, a0), tcpConnection |-> Sub(a2, a1),
     tlsHandshake |-> Sub(a6, a5), serverProcessing |-> Sub(a4, a3),
     contentTransfer |-> Sub(a4, a7),
     namelookup |-> Sub(a1, a0), connect |-> Sub(a2, a0),
     pretransfer |-> Sub(a3, a0), starttransfer |-> Sub(a4, a0),
     total |-> Sub(a7, a0)]

\* arguments of printf(colorize(httpsTemplate), ...)
httpsTimeline(a0, a1, a2, a3, a4, a5, a6, a7) ==
    [kind |-> "https",
     dnsLookup |-> Sub(a1, a0), tcpConnection |-> Sub(a2, a1),
     tlsHandshake |-> Sub(a6, a5), serverProcessing |-> Sub(a4, a3),
     contentTransfer |-> Sub(a7, a4),
     namelookup |-> Sub(a1, a0), connect |-> Sub(a2, a0),
     pretransfer |-> Sub(a3, a0), starttransfer |-> Sub(a4, a0),
     total |-> Sub(a7, a0)]

\* arguments of printf(colorize(httpTemplate), ...)
httpTimeline(a0, a1, a2, a3, a4, a5, a6, a7) ==
    [kind |-> "http",
     dnsLookup |-> Sub(a1, a0), tcpConnection |-> Sub(a3, a1),
     serverProcessing |-> Sub(a4, a3), contentTransfer |-> Sub(a7, a4),
     namelookup |-> Sub(a1, a0), connect |-> Sub(a3, a0),
     starttransfer |-> Sub(a4, a0), total |-> Sub(a7, a0)]

\* ------------------------------------------------------ small predicates
isRedirect_upTo400(r) == r.StatusCode > 299 /\ r.StatusCode <= 400

isRedirect(r) == r.StatusCode > 299 /\ r.StatusCode < 400

tooManyRedirects_atMax(n) == n >= maxRedirects

\* redirectsFollowed > maxRedirects
tooManyRedirects(n) == n > maxRedirects

connectStartSets_always(t) == TRUE

\* the guard t1.IsZero() of the ConnectStart hook
connectStartSets(t) == t = 0

copyFatal_never(err, w) == FALSE

\* err != nil && w != ioutil.Discard
copyFatal(err, w) == err /\ w # "discard"

\* the writer readResponseBody copies the body to
sinkOf(save, out) == IF save \/ out # "" THEN "file" ELSE "discard"

\* the zero Dialer of a transport without DialContext races address families
dualStack == ~fourOnly

\* a hook records time.Now() in timestamp k
Stamp(k) == writes' = [writes EXCEPT ![k] = @ + 1]

\* ------------------------------------------------------------ visit entry
\* visit(u) up to the call of client.Do: fresh timestamps, fresh transport
EnterVisit(u) ==
    /\ pc' = "do"
    /\ url' = u
    /\ stage' = "idle"
    /\ now' = 1
    /\ t0' = 0 /\ t1' = 0 /\ t2' = 0 /\ t3' = 0
    /\ t4' = 0 /\ t5' = 0 /\ t6' = 0 /\ t7' = 0
    /\ remaining' = (IF u.IsIP THEN 1 ELSE 0)
    /\ inflight' = 0
    /\ resp' = NoResp
    /\ timeline' = NoTimeline
    /\ partial' = NoReport
    /\ visits' = visits + 1
    /\ writes' = [k \in Stamps |-> 0]
    /\ csAt' = 0
    /\ names' = <<>>

Init ==
    /\ followRedirects \in BOOLEAN
    /\ httpMethod \in {"GET", "HEAD"}
    /\ saveOutput \in BOOLEAN
    /\ outputFile \in {"", "out"}
    /\ ~(saveOutput /\ outputFile # "")
    /\ fourOnly \in BOOLEAN
    /\ redirectsFollowed = 0
    /\ pc = "do"
    /\ url \in URLs
    /\ stage = "idle"
    /\ now = 1
    /\ t0 = 0 /\ t1 = 0 /\ t2 = 0 /\ t3 = 0
    /\ t4 = 0 /\ t5 = 0 /\ t6 = 0 /\ t7 = 0
    /\ remaining = (IF url.IsIP THEN 1 ELSE 0)
    /\ inflight = 0
    /\ resp = NoResp
    /\ timeline = NoTimeline
    /\ partial = NoReport
    /\ fatal = "none"
    /\ visits = 1
    /\ writes = [k \in Stamps |-> 0]
    /\ failure = "none"
    /\ csAt = 0
    /\ names = <<>>

\* ------------------------------------------------------------ the clock
Tick ==
    /\ pc \in {"do", "body"}
    /\ now < MaxClock
    /\ now' = now + 1
    /\ UNCHANGED <<flags, redirectsFollowed, pc, url, stage, ts, conn, resp,
                   timeline, partial, fatal, visits, writes,
                   failure, csAt, names>>

\* ------------------------------------------------- the httptrace hooks
\* DNSStart: func(_) { t0 = time.Now() }
DNSStart ==
    /\ pc = "do" /\ stage = "idle" /\ ~url.IsIP
    /\ t0' = now
    /\ Stamp("t0")
    /\ stage' = "dns"
    /\ UNCHANGED <<flags, redirectsFollowed, pc, url, now, t1, t2, t3, t4,
                   t5, t6, t7, conn, resp, timeline, partial, fatal, visits,
                   failure, csAt, names>>

\* DNSDone: func(_) { t1 = time.Now() }; the lookup yields n addresses
DNSDone ==
    /\ pc = "do" /\ stage = "dns"
    /\ t1' = now
    /\ Stamp("t1")
    /\ stage' = "dial"
    /\ \E n \in Addrs : remaining' = n
    /\ UNCHANGED <<flags, redirectsFollowed, pc, url, now, t0, t2, t3, t4,
                   t5, t6, t7, inflight, resp, timeline, partial, fatal,
                   visits, failure, csAt, names>>

\* ConnectStart: func(_, _) { if t1.IsZero() { t1 = time.Now() } }
\* The dialer tries the next address once the previous attempt has failed
\* and, when it races the address families, also while one is still running.
ConnectStart ==
    /\ pc = "do"
    /\ \/ stage = "dial"
       \/ stage = "idle" /\ url.IsIP
    /\ remaining > 0
    /\ inflight = 0 \/ dualStack
    /\ remaining' = remaining - 1
    /\ inflight' = inflight + 1
    /\ IF connectStartSets(t1)
       THEN t1' = now /\ Stamp("t1") /\ csAt' = now
       ELSE UNCHANGED <<t1, writes, csAt>>
    /\ stage' = "dial"
    /\ UNCHANGED <<flags, redirectsFollowed, pc, url, now, t0, t2, t3, t4,
                   t5, t6, t7, resp, timeline, partial, fatal, visits,
                   failure, names>>

\* ConnectDone with err != nil: print the partial report, log, return
ConnectDoneErr ==
    /\ pc \in {"do", "body"}
    /\ inflight > 0
    /\ inflight' = inflight - 1
    /\ partial' = [kind |-> "partial", dns |-> Sub(t1, t0),
                   tcp |-> Sub(now, t1)]
    /\ UNCHANGED <<flags, redirectsFollowed, pc, url, stage, now, ts,
                   remaining, resp, timeline, fatal, visits, writes, failure,
                   csAt, names>>

\* ConnectDone with err == nil: t2 = time.Now().  The first attempt to
\* succeed ends the dial; an attempt of the losing family that had already
\* connected still reports, possibly after client.Do has returned.
ConnectDoneOK ==
    /\ pc \in {"do", "body"}
    /\ inflight > 0
    /\ inflight' = inflight - 1
    /\ t2' = now
    /\ Stamp("t2")
    /\ IF stage = "dial"
       THEN stage' = "conn" /\ remaining' = 0
       ELSE UNCHANGED <<stage, remaining>>
    /\ UNCHANGED <<flags, redirectsFollowed, pc, url, now, t0, t1, t3, t4,
                   t5, t6, t7, resp, timeline, partial, fatal, visits,
                   failure, csAt, names>>

\* TLSHandshakeStart: func() { t5 = time.Now() }
TLSHandshakeStart ==
    /\ pc = "do" /\ stage = "conn" /\ url.Scheme = "https"
    /\ t5' = now
    /\ Stamp("t5")
    /\ stage' = "tls"
    /\ UNCHANGED <<flags, redirectsFollowed, pc, url, now, t0, t1, t2, t3,
                   t4, t6, t7, conn, resp, timeline, partial, fatal, visits,
                   failure, csAt, names>>

\* TLSHandshakeDone: func(_, _) { t6 = time.Now() }
TLSHandshakeDone ==
    /\ pc = "do" /\ stage = "tls"
    /\ t6' = now
    /\ Stamp("t6")
    /\ stage' = "tlsdone"
    /\ UNCHANGED <<flags, redirectsFollowed, pc, url, now, t0, t1, t2, t3,
                   t4, t5, t7, conn, resp, timeline, partial, fatal, visits,
                   failure, csAt, names>>

\* GotConn: func(_) { t3 = time.Now() }
GotConn ==
    /\ pc = "do"
    /\ \/ stage = "conn" /\ url.Scheme = "http"
       \/ stage = "tlsdone"
    /\ t3' = now
    /\ Stamp("t3")
    /\ stage' = "got"
    /\ UNCHANGED <<flags, redirectsFollowed, pc, url, now, t0, t1, t2, t4,
                   t5, t6, t7, conn, resp, timeline, partial, fatal, visits,
                   failure, csAt, names>>

\* GotFirstResponseByte: func() { t4 = time.Now() }
GotFirstResponseByte ==
    /\ pc = "do" /\ stage = "got"
    /\ t4' = now
    /\ Stamp("t4")
    /\ stage' = "first"
    /\ UNCHANGED <<flags, redirectsFollowed, pc, url, now, t0, t1, t2, t3,
                   t5, t6, t7, conn, resp, timeline, partial, fatal, visits,
                   failure, csAt, names>>

\* ------------------------------------------------------------ client.Do
\* resp, err := client.Do(req) with err == nil
DoReturn ==
    /\ pc = "do" /\ stage = "first"
    /\ \E st \in Statuses, loc \in Locations :
        resp' = [StatusCode |-> st, Location |-> loc, Header |-> {}]
    /\ pc' = "body"
    /\ stage' = "returned"
    /\ UNCHANGED <<flags, redirectsFollowed, url, now, ts, conn, timeline,
                   partial, fatal, visits, writes, failure, csAt,
                   names>>

\* client.Do returns an error (lookup, connect or handshake failure, reset,
\* client.Timeout): logger.Fatal("failed to read response")
DoError ==
    /\ pc = "do"
    /\ pc' = "fatal"
    /\ fatal' = "do"
    /\ failure' = "do"
    /\ UNCHANGED <<flags, redirectsFollowed, url, stage, now, ts, conn, resp,
                   timeline, partial, visits, writes, csAt, names>>

\* ------------------------------------------------------ readResponseBody
\* readResponseBody(req, resp); resp.Body.Close(); t7 := time.Now();
\* if t0.IsZero() { t0 = t1 }
ReadBody ==
    /\ pc = "body"
    /\ \E fileOK \in BOOLEAN, copyErr \in BOOLEAN :
        LET skip == isRedirect(resp) \/ httpMethod = "HEAD"
            w    == sinkOf(saveOutput, outputFile)
        IN  /\ skip => fileOK /\ ~copyErr
            /\ w = "discard" => fileOK
            /\ ~fileOK => ~copyErr
            /\ IF ~skip /\ ~fileOK
               THEN /\ pc' = "fatal" /\ fatal' = "file"
                    /\ UNCHANGED <<t0, t7, failure>>
               ELSE IF ~skip /\ copyFatal(copyErr, w)
               THEN /\ pc' = "fatal" /\ fatal' = "body"
                    /\ failure' = "bodyFile"
                    /\ UNCHANGED <<t0, t7>>
               ELSE /\ pc' = "print"
                    /\ t7' = now
                    /\ t0' = IF t0 = 0 THEN t1 ELSE t0
                    /\ failure' = IF copyErr
                                  THEN IF w = "discard" THEN "bodyDiscard"
                                       ELSE "bodyFile"
                                  ELSE failure
                    /\ UNCHANGED fatal
    /\ UNCHANGED <<flags, redirectsFollowed, url, stage, now, t1, t2, t3, t4,
                   t5, t6, conn, resp, timeline, partial, visits, writes,
                   csAt, names>>

\* ----------------------------------------- status line, headers, timeline
\* names ranges over the map resp.Header; sort.Slice orders reqHeaders, which
\* shares the backing array of names; the header lines are printed in that
\* order and then the template of the scheme.
PrintTimeline ==
    /\ pc = "print"
    /\ \E order \in RangeOrders(resp.Header) : names' = sortSlice(order)
    /\ timeline' = IF url.Scheme = "https"
                   THEN httpsTimeline(t0, t1, t2, t3, t4, t5, t6, t7)
                   ELSE httpTimeline(t0, t1, t2, t3, t4, t5, t6, t7)
    /\ pc' = "redirect"
    /\ UNCHANGED <<flags, redirectsFollowed, url, stage, now, ts, conn, resp,
                   partial, fatal, visits, writes, failure, csAt>>

\* ------------------------------------------------------- redirect loop
\* if followRedirects && isRedirect(resp) { ... visit(loc) }
FollowRedirect ==
    /\ pc = "redirect"
    /\ IF followRedirects /\ isRedirect(resp)
       THEN CASE resp.Location = "none" ->
                    /\ pc' = "done"
                    /\ UNCHANGED <<redirectsFollowed, url, stage, now, ts,
                                   conn, resp, timeline, partial, fatal,
                                   visits, writes, csAt, names>>
              [] resp.Location = "invalid" ->
                    /\ pc' = "fatal" /\ fatal' = "location"
                    /\ UNCHANGED <<redirectsFollowed, url, stage, now, ts,
                                   conn, resp, timeline, partial, visits,
                                   writes, csAt, names>>
              [] resp.Location = "valid" ->
                    /\ redirectsFollowed' = redirectsFollowed + 1
                    /\ IF tooManyRedirects(redirectsFollowed + 1)
                       THEN /\ pc' = "fatal" /\ fatal' = "redirects"
                            /\ UNCHANGED <<url, stage, now, ts, conn, resp,
                                           timeline, partial, visits, writes, csAt, names>>
                       ELSE /\ \E u \in URLs : EnterVisit(u)
                            /\ UNCHANGED fatal
       ELSE /\ pc' = "done"
            /\ UNCHANGED <<redirectsFollowed, url, stage, now, ts, conn,
                           resp, timeline, partial, fatal, visits, writes, csAt, names>>
    /\ UNCHANGED <<flags, failure>>

Next ==
    \/ Tick
    \/ DNSStart
    \/ DNSDone
    \/ ConnectStart
    \/ ConnectDoneErr
    \/ ConnectDoneOK
    \/ TLSHandshakeStart
    \/ TLSHandshakeDone
    \/ GotConn
    \/ GotFirstResponseByte
    \/ DoReturn
    \/ DoError
    \/ ReadBody
    \/ PrintTimeline
    \/ FollowRedirect

Spec == Init /\ [][Next]_vars

\* --------------------------------------- header-order specification
\* The visit has reached the header listing; the response carries any set of
\* at most MaxHdrs header names.
HeaderInit ==
    /\ followRedirects = FALSE
    /\ httpMethod = "GET"
    /\ saveOutput = FALSE
    /\ outputFile = ""
    /\ fourOnly = FALSE
    /\ redirectsFollowed = 0
    /\ pc = "print"
    /\ url = [Scheme |-> "http", IsIP |-> TRUE]
    /\ stage = "returned"
    /\ now = 1
    /\ t0 = 1 /\ t1 = 1 /\ t2 = 1 /\ t3 = 1
    /\ t4 = 1 /\ t5 = 0 /\ t6 = 0 /\ t7 = 1
    /\ remaining = 0
    /\ inflight = 0
    /\ \E h \in SUBSET HeaderNames :
        /\ Cardinality(h) <= MaxHdrs
        /\ resp = [StatusCode |-> 200, Location |-> "none", Header |-> h]
    /\ timeline = NoTimeline
    /\ partial = NoReport
    /\ fatal = "none"
    /\ visits = 1
    /\ writes = [k \in Stamps |-> IF k \in {"t1", "t2", "t3", "t4"} THEN 1 ELSE 0]
    /\ failure = "none"
    /\ csAt = 1
    /\ names = <<>>

HeaderNext ==
    \/ PrintTimeline
    \/ FollowRedirect

HeaderSpec == HeaderInit /\ [][HeaderNext]_vars

\* ================================================================ claims

\* C1: with redirects followed, visit is entered at most maxRedirects + 1
\* (11) times in a run; the "maximum number of redirects" fatal state is
\* reached only with the counter at 11, after exactly 10 re-visits, never
\* while the counter is at most 10; and once the counter exceeds 10 no visit
\* is running or started.
C1_RedirectBound ==
    /\ visits <= maxRedirects + 1
    /\ fatal = "redirects" =>
          /\ redirectsFollowed = maxRedirects + 1
          /\ visits = maxRedirects + 1
    /\ redirectsFollowed <= maxRedirects =>
          /\ fatal # "redirects"
          /\ visits = redirectsFollowed + 1
    /\ redirectsFollowed > maxRedirects => pc = "fatal"

C1_Witness ==
    /\ followRedirects
    /\ fatal = "redirects"
    /\ visits = 11
    /\ redirectsFollowed = 11

\* C2: once the ConnectDone hook has been called with an error in a visit
\* (the partial report is out), that visit sees no further connect attempt,
\* records no connectDone (t2) or gotConnection (t3) timestamp and prints no
\* timeline.
C2_ConnectErrorEndsVisit ==
    [][(partial # NoReport /\ visits' = visits) =>
          /\ inflight' <= inflight
          /\ t2' = t2
          /\ t3' = t3
          /\ timeline' = NoTimeline]_vars

C4_PhasesNonNegative ==
    /\ timeline.kind # "none" =>
          /\ timeline.dnsLookup >= 0
          /\ timeline.tcpConnection >= 0
          /\ timeline.serverProcessing >= 0
          /\ timeline.contentTransfer >= 0
    /\ timeline.kind = "https" => timeline.tlsHandshake >= 0

C4_Witness ==
    /\ timeline.kind = "https"
    /\ writes["t0"] = 1
    /\ timeline.contentTransfer > 0

\* C5: the cumulative markers printed for a visit are non-decreasing:
\* namelookup <= connect <= pretransfer <= starttransfer <= total under TLS,
\* namelookup <= connect <= starttransfer <= total under plaintext.
C5_MarkersMonotone ==
    /\ timeline.kind = "https" =>
          /\ timeline.namelookup <= timeline.connect
          /\ timeline.connect <= timeline.pretransfer
          /\ timeline.pretransfer <= timeline.starttransfer
          /\ timeline.starttransfer <= timeline.total
    /\ timeline.kind = "http" =>
          /\ timeline.namelookup <= timeline.connect
          /\ timeline.connect <= timeline.starttransfer
          /\ timeline.starttransfer <= timeline.total

\* C6: with following disabled there is exactly one visit; and after a visit
\* whose response is not to be followed (following disabled, status outside
\* 300..399, or no Location) the next step is Done, with no new visit, no
\* fatal error and the redirect counter unchanged.
C6_SilentDone ==
    /\ [](~followRedirects => visits = 1 /\ redirectsFollowed = 0)
    /\ [][(/\ pc = "redirect"
           /\ \/ ~followRedirects
              \/ resp.StatusCode \notin 300..399
              \/ resp.Location = "none") =>
          (/\ pc' = "done"
           /\ visits' = visits
           /\ fatal' = "none"
           /\ redirectsFollowed' = redirectsFollowed)]_vars

C6_Witness ==
    /\ pc = "done"
    /\ followRedirects
    /\ resp.StatusCode = 300
    /\ resp.Location = "none"
    /\ visits = 2

C8_SkippedDNS ==
    /\ [](timeline.kind # "none" /\ writes["t0"] = 0 =>
            /\ csAt # 0
            /\ t0 = csAt
            /\ timeline.dnsLookup = 0
            /\ timeline.namelookup = 0
            /\ timeline.starttransfer = t4 - csAt
            /\ timeline.total = t7 - csAt
            /\ timeline.connect =
                  (IF timeline.kind = "https" THEN t2 ELSE t3) - csAt)
    /\ [][(writes["t0"] > 0 /\ t1 # 0 /\ visits' = visits) => t1' = t1]_vars

C8_Witness ==
    /\ timeline.kind # "none"
    /\ writes["t0"] = 0
    /\ url.IsIP
    /\ csAt = 2
    /\ timeline.namelookup = 0

\* C9 as stated: under TLS tcpConnection ends at the tlsHandshakeStart
\* instant and a tlsHandshake phase is present; under plaintext there is no
\* tlsHandshake phase and tcpConnection ends at gotConnection.
C9_TcpEndsAtHandshakeStart ==
    /\ timeline.kind = "https" =>
          /\ timeline.tcpConnection = Sub(t5, t1)
          /\ "tlsHandshake" \in DOMAIN timeline
    /\ timeline.kind = "http" =>
          /\ timeline.tcpConnection = Sub(t3, t1)
          /\ "tlsHandshake" \notin DOMAIN timeline

\* C9 amended: under TLS tcpConnection ends at the connectDone instant (t2),
\* not at tlsHandshakeStart or gotConnection, and a tlsHandshake phase from
\* tlsHandshakeStart to tlsHandshakeDone is present; under plaintext there is
\* no tlsHandshake phase and tcpConnection ends at gotConnection.
C9_TcpEndsAtConnectDone ==
    /\ timeline.kind = "https" =>
          /\ timeline.tcpConnection = Sub(t2, t1)
          /\ "tlsHandshake" \in DOMAIN timeline
          /\ timeline.tlsHandshake = Sub(t6, t5)
    /\ timeline.kind = "http" =>
          /\ timeline.tcpConnection = Sub(t3, t1)
          /\ "tlsHandshake" \notin DOMAIN timeline

C9_Witness ==
    /\ timeline.kind = "https"
    /\ t2 < t5
    /\ t5 = t3
    /\ timeline.tcpConnection # Sub(t5, t1)

\* C10: within a visit each trace timestamp is written at most once, no hook
\* writes after client.Do has returned, and the timeline exists only after
\* the call has returned.
C10_WriteOnceBeforeRead ==
    /\ [](/\ \A k \in Stamps : writes[k] <= 1
          /\ timeline.kind # "none" => pc # "do")
    /\ [][(pc # "do" /\ visits' = visits) => writes' = writes]_vars

====
